---------------------------- MODULE Spec2Model ----------------------------
(***************************************************************************)
(* Reconciliation of a spreadsheet extract with an Odoo ERP:               *)
(*   - the two client scripts compare_prices.py ("prices" flow) and        *)
(*     compare_products_sources.py ("both" flow: prices and stock),        *)
(*   - the Flask facade app/routes/odoo.py,                                *)
(*   - the ERP client app/services/odoo_service.py (OdooProductAPI).       *)
(*                                                                         *)
(* Numbers.  Every price and quantity is a decimal with at most six        *)
(* fractional digits, held as an integer count of millionths (Micro).      *)
(* Python holds them as IEEE-754 doubles; the comparisons of the scripts   *)
(* are modelled on the doubles (DoubleErr, FloatCmp below), because at a   *)
(* difference of exactly the tolerance the rounding of the doubles is what *)
(* decides the comparison.                                                 *)
(***************************************************************************)
EXTENDS Integers, Sequences, FiniteSets, TLC

\* Python's None: an absent field/argument (values themselves are >= 0).
None == -1

\* One unit (1.0) in millionths.
Micro == 10^6

\* One cent (0.01) in millionths.
Cent == 10^4

(***************************************************************************)
(* IEEE-754 double arithmetic on decimals v/Micro, in 32-bit integers.     *)
(* The double nearest to v/Micro is m / 2^k with k = DoubleK(v) and        *)
(* m = round(v * 2^k / Micro); DoubleErr(v) is its error, counted in       *)
(* units of 1/(Micro * 2^k):  double(v) = (v * 2^k + DoubleErr(v)) /       *)
(* (Micro * 2^k).  A tie cannot happen (v * 2^k is a multiple of 2^6 and   *)
(* Micro/2 is not).                                                        *)
(***************************************************************************)
\* a * b mod Micro for 0 <= a, b < Micro, without leaving 32 bits.
MulMod(a, b) ==
    LET high == (((a * (b \div 1000)) % Micro) * 1000) % Micro
        low  == (a * (b % 1000)) % Micro
    IN  (high + low) % Micro

\* 2^k mod Micro, by squaring.
RECURSIVE PowMod2(_)
PowMod2(k) ==
    IF k = 0 THEN 1
    ELSE LET h == PowMod2(k \div 2)
         IN  (MulMod(h, h) * (IF k % 2 = 1 THEN 2 ELSE 1)) % Micro

\* For v >= Micro: the largest e with 2^e <= v/Micro.
RECURSIVE ExpUp(_, _)
ExpUp(q, e) == IF q >= 2^(e + 1) THEN ExpUp(q, e + 1) ELSE e

\* For 0 < v < Micro: the smallest j with v * 2^j >= Micro.
RECURSIVE ExpDown(_, _)
ExpDown(v, j) == IF v * 2^j >= Micro THEN j ELSE ExpDown(v, j + 1)

\* The binary exponent e of v/Micro: 2^e <= v/Micro < 2^(e+1)   (v > 0).
BinExp(v) == IF v >= Micro THEN ExpUp(v \div Micro, 0) ELSE 0 - ExpDown(v, 0)

\* A double has a 53-bit significand: m / 2^k with k = 52 - e.
DoubleK(v) == 52 - BinExp(v)

DoubleErr(v) ==
    IF v = 0 THEN 0
    ELSE LET r == MulMod(v % Micro, PowMod2(DoubleK(v)))
         IN  IF 2 * r < Micro THEN 0 - r ELSE Micro - r

Abs(x) == IF x < 0 THEN 0 - x ELSE x

Max(x, y) == IF x >= y THEN x ELSE y

Min(x, y) == IF x <= y THEN x ELSE y

\* ceil(y / d) for d > 0.
CeilDiv(y, d) == 0 - ((0 - y) \div d)

(***************************************************************************)
(* The sign (-1, 0, 1) of  (double(a) - double(b)) - double(c)  for        *)
(* a - b = c, b = 0 or b >= c.  The subtraction of the two doubles is      *)
(* then exact (b = 0, or a <= 2b and the result lies in c's binade), so    *)
(* the sign is that of  Err(a)/2^ka - Err(b)/2^kb - Err(c)/2^kc.           *)
(***************************************************************************)
BoundaryCmp(a, b, c) ==
    IF b = 0 THEN 0
    ELSE LET ka == DoubleK(a)
             kb == DoubleK(b)
             kc == DoubleK(c)
             x  == DoubleErr(a) * 2^(kb - ka) - DoubleErr(b)
             s  == Min(kc - kb, 30)
             y  == DoubleErr(c)
         IN  IF x < CeilDiv(y, 2^s) THEN -1
             ELSE IF x > y \div 2^s THEN 1
             ELSE 0

\* The sign of  abs(double(x) - double(y)) - double(tol).  Away from the
\* boundary the decimals decide (the rounding errors are below 1e-13).
FloatCmp(x, y, tol) ==
    LET d == Abs(x - y)
    IN  IF d < tol THEN -1
        ELSE IF d > tol THEN 1
        ELSE BoundaryCmp(Max(x, y), Min(x, y), tol)


(***************************************************************************)
(* The ERP (Odoo), reached over XML-RPC.  Its state is one record:         *)
(*   product   : id -> [default_code, list_price, standard_price]          *)
(*   quant     : <<product id, location id>> -> on-hand quantity           *)
(*   internal  : the internal stock locations of company 1                 *)
(*   inventory : the stock.inventory adjustments, id = position            *)
(*   line      : the stock.inventory.line records, id = position           *)
(***************************************************************************)
\* Bounds of the model.
MaxProducts == 2

MaxCalls == 2

\* The ids of the products of the ERP.
ProductIds == 1..MaxProducts

\* A product id that resolves to nothing in the ERP.
MissingId == MaxProducts + 7

LocationIds == {1, 2}

\* A date field nobody has set.
NoDate == None

\* qty_available of a product: what is on hand in the internal locations.
RECURSIVE SumQuant(_, _, _)
SumQuant(quant, p, locs) ==
    IF locs = {} THEN 0
    ELSE LET l == CHOOSE m \in locs : TRUE
         IN  quant[<<p, l>>] + SumQuant(quant, p, locs \ {l})

qty_available(erp, p) == SumQuant(erp.quant, p, erp.internal)

\* What 'search_read' / 'read' returns for one product.
ProductRecord(erp, p) ==
    [id             |-> p,
     default_code   |-> erp.product[p].default_code,
     list_price     |-> erp.product[p].list_price,
     standard_price |-> erp.product[p].standard_price,
     qty_available  |-> qty_available(erp, p)]

\* OdooProductAPI.search_products with the default domain: the first
\* 'limit' products after 'offset', in id order.
RECURSIVE search_products_from(_, _, _)
search_products_from(erp, p, limit) ==
    IF limit = 0 \/ p \notin DOMAIN erp.product THEN <<>>
    ELSE <<ProductRecord(erp, p)>> \o search_products_from(erp, p + 1, limit - 1)

search_products(erp, limit, offset) == search_products_from(erp, offset + 1, limit)

(***************************************************************************)
(* OdooProductAPI.update_product_price.  'fault' names the XML-RPC call    *)
(* that fails upstream ("write", "read"; any other name: none on this      *)
(* path).  The result is the ERP afterwards, how the call ended, and the   *)
(* values handed to 'write' ({}: no write was issued).                     *)
(***************************************************************************)
\* Mutant of PriceUpdateVals: both fields handed to 'write', supplied or not.
PriceUpdateValsBoth(list_price, standard_price) ==
    {<<"list_price", list_price>>, <<"standard_price", standard_price>>}

PriceUpdateVals(list_price, standard_price) ==
    (IF list_price # None THEN {<<"list_price", list_price>>} ELSE {})
    \cup (IF standard_price # None THEN {<<"standard_price", standard_price>>} ELSE {})

WriteProduct(erp, product_id, vals) ==
    [erp EXCEPT !.product[product_id] =
        [default_code   |-> @.default_code,
         list_price     |-> IF \E v \in vals : v[1] = "list_price"
                            THEN (CHOOSE v \in vals : v[1] = "list_price")[2]
                            ELSE @.list_price,
         standard_price |-> IF \E v \in vals : v[1] = "standard_price"
                            THEN (CHOOSE v \in vals : v[1] = "standard_price")[2]
                            ELSE @.standard_price]]

OdooProductAPI_update_product_price(erp, product_id, list_price, standard_price, fault) ==
    IF list_price = None /\ standard_price = None
    THEN [erp |-> erp, outcome |-> "ValueError", written |-> {}]
    ELSE LET update_vals == PriceUpdateVals(list_price, standard_price)
         IN  IF fault = "write" \/ product_id \notin DOMAIN erp.product
             THEN [erp |-> erp, outcome |-> "Fault", written |-> {}]
             ELSE [erp     |-> WriteProduct(erp, product_id, update_vals),
                   outcome |-> IF fault = "read" THEN "Fault" ELSE "ok",
                   written |-> update_vals]


(***************************************************************************)
(* OdooProductAPI.update_product_stock: an inventory adjustment            *)
(* (stock.inventory) is created, started, its line for the product is      *)
(* overwritten or created, and the adjustment is validated.                *)
(***************************************************************************)
\* The internal locations holding the product, in id order.
RECURSIVE SortedLocations(_)
SortedLocations(locs) ==
    IF locs = {} THEN <<>>
    ELSE LET l == CHOOSE m \in locs : \A n \in locs : m <= n
         IN  <<l>> \o SortedLocations(locs \ {l})

NewLine(inventory_id, product_id, location_id, product_qty) ==
    [inventory_id   |-> inventory_id,
     product_id     |-> product_id,
     location_id    |-> location_id,
     product_qty    |-> product_qty,
     inventory_date |-> NoDate]

\* 'stock.inventory'.create of odoo_service.py:185.
create_inventory(erp, product_id) ==
    [erp EXCEPT !.inventory = Append(@, [product_id |-> product_id, state |-> "draft"])]

\* 'stock.inventory'.action_start: the ERP starts the adjustment and fills
\* in one line per internal location where the product is on hand, with
\* the quantity on hand.
action_start(erp, inventory_id) ==
    LET p    == erp.inventory[inventory_id].product_id
        locs == SortedLocations({l \in erp.internal : erp.quant[<<p, l>>] > 0})
    IN  [erp EXCEPT
           !.inventory[inventory_id].state = "confirm",
           !.line = @ \o [i \in 1..Len(locs) |->
                            NewLine(inventory_id, p, locs[i], erp.quant[<<p, locs[i]>>])]]

\* Mutant of search_lines: the location is left out of the domain.
search_lines_any_location(erp, inventory_id, product_id, location_id) ==
    {i \in DOMAIN erp.line :
        /\ erp.line[i].inventory_id = inventory_id
        /\ erp.line[i].product_id = product_id}

\* 'stock.inventory.line'.search with the domain of odoo_service.py:199-205.
search_lines(erp, inventory_id, product_id, location_id) ==
    {i \in DOMAIN erp.line :
        /\ erp.line[i].inventory_id = inventory_id
        /\ erp.line[i].product_id = product_id
        /\ (location_id # None => erp.line[i].location_id = location_id)}

\* Mutant of write_lines: the write also stamps a count date 90 days after
\* the call (calls are numbered as the adjustments are).
write_lines_stamped(erp, line_ids, new_quantity) ==
    [erp EXCEPT !.line = [i \in DOMAIN @ |->
        IF i \in line_ids
        THEN [@[i] EXCEPT !.product_qty = new_quantity,
                          !.inventory_date = Len(erp.inventory) + 90]
        ELSE @[i]]]

\* 'stock.inventory.line'.write of {'product_qty': new_quantity}.
write_lines(erp, line_ids, new_quantity) ==
    [erp EXCEPT !.line = [i \in DOMAIN @ |->
        IF i \in line_ids THEN [@[i] EXCEPT !.product_qty = new_quantity] ELSE @[i]]]

\* 'stock.location'.search with limit 1 (odoo_service.py:222-232).
search_location(erp, location_id) ==
    LET found == IF location_id # None
                 THEN {l \in LocationIds : l = location_id}
                 ELSE erp.internal
    IN  IF found = {} THEN {} ELSE {CHOOSE m \in found : \A n \in found : m <= n}

\* 'stock.inventory.line'.create with line_vals of odoo_service.py:239-244.
create_line(erp, inventory_id, product_id, location_id, new_quantity) ==
    [erp EXCEPT !.line = Append(@, NewLine(inventory_id, product_id, location_id, new_quantity))]

\* 'stock.inventory'.action_validate: the ERP applies the counted quantity
\* of every line of the adjustment to the stock on hand.
action_validate(erp, inventory_id) ==
    LET mine == {i \in DOMAIN erp.line : erp.line[i].inventory_id = inventory_id}
    IN  [erp EXCEPT
           !.inventory[inventory_id].state = "done",
           !.quant = [k \in DOMAIN @ |->
               IF \E i \in mine : <<erp.line[i].product_id, erp.line[i].location_id>> = k
               THEN erp.line[CHOOSE i \in mine :
                        <<erp.line[i].product_id, erp.line[i].location_id>> = k].product_qty
               ELSE @[k]]]

StockResult(erp, outcome, touched) == [erp |-> erp, outcome |-> outcome, touched |-> touched]

\* The tail of update_product_stock: validate, then read the product back.
ValidateAndRead(erp, inventory_id, touched, fault) ==
    IF fault = "action_validate" THEN StockResult(erp, "Fault", touched)
    ELSE StockResult(action_validate(erp, inventory_id),
                     IF fault = "read" THEN "Fault" ELSE "ok", touched)

OdooProductAPI_update_product_stock(erp, product_id, new_quantity, location_id, fault) ==
    LET inventory_id == Len(erp.inventory) + 1
        e1       == create_inventory(erp, product_id)
        e2       == action_start(e1, inventory_id)
        line_ids == search_lines(e2, inventory_id, product_id, location_id)
        location_ids == search_location(e2, location_id)
        new_id   == Len(e2.line) + 1
    IN  IF fault = "create" \/ product_id \notin DOMAIN erp.product
        THEN StockResult(erp, "Fault", {})
        ELSE IF fault = "action_start" THEN StockResult(e1, "Fault", {})
        ELSE IF fault = "search_line" THEN StockResult(e2, "Fault", {})
        ELSE IF line_ids # {}
        THEN IF fault = "write_line" THEN StockResult(e2, "Fault", {})
             ELSE ValidateAndRead(write_lines(e2, line_ids, new_quantity),
                                  inventory_id, line_ids, fault)
        ELSE IF fault = "search_location" THEN StockResult(e2, "Fault", {})
        ELSE IF location_ids = {} THEN StockResult(e2, "ValueError", {})
        ELSE IF fault = "create_line" THEN StockResult(e2, "Fault", {})
        ELSE ValidateAndRead(
                 create_line(e2, inventory_id, product_id,
                             CHOOSE l \in location_ids : TRUE, new_quantity),
                 inventory_id, {new_id}, fault)

(***************************************************************************)
(* The Flask facade, app/routes/odoo.py.  A request body is a record       *)
(* [is_json, keys, ...values]; a response is the ERP afterwards and the    *)
(* HTTP status.                                                            *)
(***************************************************************************)
\* The <method, rule> pairs registered on the blueprint: the handlers that
\* carry an '@odoo_bp.route' decorator.  update_stock is preceded by a bare
\* 'odoo_bp.route(...)' expression (odoo.py:60), which registers nothing.
Routes ==
    {<<"GET", "/products">>,
     <<"GET", "/products/<int:product_id>">>,
     <<"GET", "/products/code/<code>">>,
     <<"GET", "/products/<int:product_id>/stock">>,
     <<"GET", "/products/categories">>,
     <<"GET", "/products/export">>,
     <<"PUT", "/products/<int:product_id>/price">>}

Response(erp, status) == [erp |-> erp, status |-> status]

\* Flask's answer for a request: the handler's, 405 when the rule is only
\* registered for other methods, 404 when it is not registered at all.
Dispatch(erp, method, rule, handled) ==
    IF <<method, rule>> \in Routes THEN handled
    ELSE IF \E r \in Routes : r[2] = rule THEN Response(erp, "405")
    ELSE Response(erp, "404")

StatusOf(outcome) ==
    IF outcome = "ok" THEN "200"
    ELSE IF outcome = "ValueError" THEN "400"
    ELSE "500"

\* get_products: no try/except, so an upstream fault is Flask's 500.
get_products(erp, limit, offset, fault) ==
    IF fault = "search_read" THEN [status |-> "500", json |-> <<>>]
    ELSE [status |-> "200", json |-> search_products(erp, limit, offset)]

\* update_price (odoo.py:92-129).
update_price(erp, product_id, data, fault) ==
    IF ~data.is_json THEN Response(erp, "400")
    ELSE IF "list_price" \notin data.keys /\ "standard_price" \notin data.keys
    THEN Response(erp, "400")
    ELSE LET list_price     == IF "list_price" \in data.keys THEN data.list_price ELSE None
             standard_price == IF "standard_price" \in data.keys
                               THEN data.standard_price ELSE None
             result == OdooProductAPI_update_product_price(
                           erp, product_id, list_price, standard_price, fault)
         IN  Response(result.erp, StatusOf(result.outcome))

\* update_stock (odoo.py:61-90).
update_stock(erp, product_id, data, fault) ==
    IF ~data.is_json THEN Response(erp, "400")
    ELSE IF "quantity" \notin data.keys THEN Response(erp, "400")
    ELSE LET location_id == IF "location_id" \in data.keys THEN data.location_id ELSE None
             result == OdooProductAPI_update_product_stock(
                           erp, product_id, data.quantity, location_id, fault)
         IN  Response(result.erp, StatusOf(result.outcome))

PutPrice(erp, product_id, data, fault) ==
    Dispatch(erp, "PUT", "/products/<int:product_id>/price",
             update_price(erp, product_id, data, fault))

PutStock(erp, product_id, data, fault) ==
    Dispatch(erp, "PUT", "/products/<int:product_id>/stock",
             update_stock(erp, product_id, data, fault))

(***************************************************************************)
(* The client scripts.  flow = "prices" is compare_prices.py, flow =       *)
(* "both" is compare_products_sources.py; the two differ in the price      *)
(* tolerance and in the stock section.                                     *)
(***************************************************************************)
VARIABLES
    erp,            \* the ERP's state
    flow,           \* which script is running
    pc,             \* where the script is
    odoo_products,  \* what get_all_odoo_products returned
    idx,            \* the position of main's for loop in odoo_products
    pair,           \* what has happened to the record being processed
    calls,          \* how many direct calls the facade/service has served
    last            \* the last direct call: its arguments, the ERP before, the result

vars == <<erp, flow, pc, odoo_products, idx, pair, calls, last>>

Flows == {"prices", "both"}

\* limit = 10 in get_all_odoo_products: only the first page is fetched.
limit == 10

\* tolerance = 0.01 of compare_products_sources.py:109.
tolerance == Cent

\* The 1e-6 of compare_prices.py:92 and compare_products_sources.py:136.
epsilon == 1

\* Mutant of calculated_price: the quotient cut to cents, not rounded.
calculated_price_truncated(precio_neto) ==
    ((100 * (precio_neto \div Cent)) \div 214) * Cent

\* round(precio_neto / 2.14, 2) for a net price in whole cents: the nearest
\* cent to precio_neto * 100 / 214 (never a tie: 107 * odd is no multiple
\* of 100), as a count of millionths.
calculated_price(precio_neto) ==
    ((100 * (precio_neto \div Cent) + 107) \div 214) * Cent

\* Mutant of PricesEqual: the 0.01 tolerance in both scripts.
PricesEqualOneTolerance(f, standard_price, calculated) ==
    FloatCmp(standard_price, calculated, tolerance) < 0

\* abs(standard_price - calculated_price) < tolerance   (resp. < 1e-6).
PricesEqual(f, standard_price, calculated) ==
    FloatCmp(standard_price, calculated, IF f = "both" THEN tolerance ELSE epsilon) < 0

\* Mutant of StockDiffers: '>=' for '>'.
StockDiffersAtBoundary(odoo_stock, excel_stock) ==
    FloatCmp(odoo_stock, excel_stock, epsilon) >= 0

\* abs(odoo_stock - excel_stock) > 1e-6.
StockDiffers(odoo_stock, excel_stock) ==
    FloatCmp(odoo_stock, excel_stock, epsilon) > 0

\* Mutant of price_decision: compare_prices decides as
\* compare_prices_and_stock does.
price_decision_as_combined(f, odoo_product, excel_data) ==
    IF excel_data.precio_neto = None THEN "missing"
    ELSE IF odoo_product.standard_price = None THEN "missing"
    ELSE IF PricesEqual("both", odoo_product.standard_price,
                        calculated_price(excel_data.precio_neto))
    THEN "equal"
    ELSE "mismatch"

\* The price section up to the prompt: compare_prices.py:63-96 and
\* compare_products_sources.py:80-113.
price_decision(f, odoo_product, excel_data) ==
    IF excel_data.precio_neto = None THEN "missing"
    ELSE IF odoo_product.standard_price = None THEN "missing"
    ELSE IF PricesEqual(f, odoo_product.standard_price,
                        calculated_price(excel_data.precio_neto))
    THEN "equal"
    ELSE "mismatch"

\* The stock section up to the prompt: compare_products_sources.py:131-157.
stock_decision(odoo_product, excel_data) ==
    IF odoo_product.qty_available # None /\ excel_data.stock # None
    THEN IF StockDiffers(odoo_product.qty_available, excel_data.stock)
         THEN "mismatch"
         ELSE "equal"
    ELSE "missing"

\* Whether the function goes on to its stock section once the price
\* section has ended with 'decision': compare_prices has none, and
\* compare_prices_and_stock returns early on a missing price field.
ReachesStock(f, decision) == f = "both" /\ decision # "missing"

\* Mutant of PriceBody: the two prices under each other's key.
PriceBodySwapped(list_price, standard_price) ==
    [is_json |-> TRUE, keys |-> {"list_price", "standard_price"},
     list_price |-> standard_price, standard_price |-> list_price]

\* The JSON bodies the scripts send.
PriceBody(list_price, standard_price) ==
    [is_json |-> TRUE, keys |-> {"list_price", "standard_price"},
     list_price |-> list_price, standard_price |-> standard_price]

StockBody(quantity) ==
    [is_json |-> TRUE, keys |-> {"quantity"}, quantity |-> quantity, location_id |-> None]

\* What the script knows of the record it is processing.
NoPut == [sent |-> FALSE, product_id |-> None, list_price |-> None,
          standard_price |-> None, quantity |-> None, status |-> ""]

FreshPair(product) ==
    [product |-> product, lookup |-> "", excel |-> [precio_neto |-> None, stock |-> None],
     price |-> "none", price_answer |-> "", price_put |-> NoPut,
     stock |-> "none", stock_answer |-> "", stock_put |-> NoPut]

NoProduct == [id |-> None, default_code |-> "", list_price |-> None,
              standard_price |-> None, qty_available |-> None]

(***************************************************************************)
(* The inputs of a run.                                                    *)
(***************************************************************************)
\* The products of the ERP at the start: code, list price, cost, on hand.
Templates ==
    {[default_code |-> "",  list_price |-> 99 * Micro, standard_price |-> 50 * Micro,
      qty |-> 10 * Micro],
     [default_code |-> "A", list_price |-> 99 * Micro, standard_price |-> 4673 * Cent,
      qty |-> 10 * Micro],
     [default_code |-> "B", list_price |-> 99 * Micro, standard_price |-> 4674 * Cent,
      qty |-> 5 * Micro],
     [default_code |-> "C", list_price |-> 99 * Micro, standard_price |-> 5001 * Cent,
      qty |-> 0],
     [default_code |-> "D", list_price |-> 99 * Micro, standard_price |-> 46735 * 1000,
      qty |-> 10 * Micro]}

ErpOf(t, internal) ==
    [product   |-> [p \in DOMAIN t |->
                      [default_code   |-> t[p].default_code,
                       list_price     |-> t[p].list_price,
                       standard_price |-> t[p].standard_price]],
     quant     |-> [k \in (DOMAIN t) \X LocationIds |->
                      IF k[2] = 1 THEN t[k[1]].qty ELSE 0],
     internal  |-> internal,
     inventory |-> <<>>,
     line      |-> <<>>]

\* The rows the spreadsheet may hold for a product: "Precio neto" absent,
\* 100.00 or 107.00; "Stock disponible" absent, the ERP's quantity, one
\* millionth more, or two units more.
ExcelRows(product) ==
    [precio_neto : {None, 100 * Micro, 107 * Micro},
     stock       : {None, product.qty_available, product.qty_available + 1,
                    product.qty_available + 2 * Micro}]

\* How an HTTP request of the script to the facade can end on the wire:
\* delivered and answered, or requests raising (connection refused/reset).
Transport == {"answered", "raised"}

NoCall == [op |-> "", product_id |-> None, list_price |-> None, standard_price |-> None,
           quantity |-> None, location_id |-> None, outcome |-> "",
           touched |-> {}, written |-> {}, status |-> "", time |-> 0]

\* The ERP holds MaxProducts products, or none at all.
Init ==
    /\ \E n \in {0, MaxProducts} : \E t \in [1..n -> Templates] : erp = ErpOf(t, {1})
    /\ flow = "prices"
    /\ pc = "idle"
    /\ odoo_products = <<>>
    /\ idx = 0
    /\ pair = FreshPair(NoProduct)
    /\ calls = 0
    /\ last = [call |-> NoCall, before |-> erp]

(***************************************************************************)
(* main() of either script.                                                *)
(***************************************************************************)
\* Mutant of NothingFetched: main goes on whatever the fetch gave.
NothingFetchedNever(response) == FALSE

\* 'if not odoo_products': get_odoo_products_batch gave None (the answer
\* was not a 200) or an empty list.
NothingFetched(response) == response.status # "200" \/ response.json = <<>>

\* The script is started: get_all_odoo_products fetches the first page.
Main ==
    /\ pc = "idle"
    /\ \E f \in Flows, wire \in Transport, fault \in {"none", "search_read"} :
         LET response == get_products(erp, limit, 0, fault)
         IN  /\ flow' = f
             /\ IF wire = "raised"
                THEN /\ pc' = "crashed"
                     /\ UNCHANGED <<odoo_products, idx>>
                ELSE IF NothingFetched(response)
                THEN /\ pc' = "done"
                     /\ UNCHANGED <<odoo_products, idx>>
                ELSE /\ pc' = "loop"
                     /\ odoo_products' = response.json
                     /\ idx' = 1
    /\ UNCHANGED <<erp, pair, calls, last>>

\* The state of the script once the price section of the current record
\* has ended without a prompt pending: the stock section, if it is reached,
\* runs up to its prompt; otherwise the loop moves on.
AfterPrice(p) ==
    IF ReachesStock(flow, p.price)
    THEN LET d == stock_decision(p.product, p.excel)
         IN  /\ pair' = [p EXCEPT !.stock = d]
             /\ IF d = "mismatch"
                THEN pc' = "stock_prompt" /\ idx' = idx
                ELSE pc' = "loop" /\ idx' = idx + 1
    ELSE /\ pair' = p
         /\ pc' = "loop"
         /\ idx' = idx + 1

\* Mutant of HasCode: every record is taken to carry a code.
HasCodeAlways(product) == TRUE

\* 'if not product_code: continue' negated: the record has a default_code
\* (the ERP reports a missing one as False, the empty one as '').
HasCode(product) == product.default_code # ""

\* One iteration of the for loop, up to the first prompt of the record.
NextProduct ==
    /\ pc = "loop"
    /\ idx <= Len(odoo_products)
    /\ LET product == odoo_products[idx]
           fresh   == FreshPair(product)
       IN  IF ~HasCode(product)
           THEN /\ pair' = [fresh EXCEPT !.lookup = "no_code"]
                /\ pc' = "loop"
                /\ idx' = idx + 1
           ELSE \E wire \in Transport :
                  IF wire = "raised"
                  THEN /\ pair' = [fresh EXCEPT !.lookup = "raised"]
                       /\ pc' = "crashed"
                       /\ idx' = idx
                  ELSE \E status \in {"200", "404", "500"} :
                         IF status # "200"
                         THEN /\ pair' = [fresh EXCEPT !.lookup = status]
                              /\ pc' = "loop"
                              /\ idx' = idx + 1
                         ELSE \E row \in ExcelRows(product) :
                                LET d == price_decision(flow, product, row)
                                    p == [fresh EXCEPT !.lookup = "200", !.excel = row,
                                                       !.price = d]
                                IN  IF d = "mismatch"
                                    THEN /\ pair' = p
                                         /\ pc' = "price_prompt"
                                         /\ idx' = idx
                                    ELSE AfterPrice(p)
    /\ UNCHANGED <<erp, flow, odoo_products, calls, last>>

\* update_product_price of the scripts: the PUT and what they make of it.
update_product_price(product_id, list_price, standard_price, wire, fault) ==
    IF wire = "raised"
    THEN [erp |-> erp,
          put |-> [NoPut EXCEPT !.sent = TRUE, !.product_id = product_id,
                     !.list_price = list_price, !.standard_price = standard_price,
                     !.status = "raised"]]
    ELSE LET response == PutPrice(erp, product_id,
                                  PriceBody(list_price, standard_price), fault)
         IN  [erp |-> response.erp,
              put |-> [NoPut EXCEPT !.sent = TRUE, !.product_id = product_id,
                         !.list_price = list_price, !.standard_price = standard_price,
                         !.status = response.status]]

\* update_product_stock of compare_products_sources.py.
update_product_stock(product_id, quantity, wire, fault) ==
    IF wire = "raised"
    THEN [erp |-> erp,
          put |-> [NoPut EXCEPT !.sent = TRUE, !.product_id = product_id,
                     !.quantity = quantity, !.status = "raised"]]
    ELSE LET response == PutStock(erp, product_id, StockBody(quantity), fault)
         IN  [erp |-> response.erp,
              put |-> [NoPut EXCEPT !.sent = TRUE, !.product_id = product_id,
                         !.quantity = quantity, !.status = response.status]]

\* Mutant of Authorizes: the answer is not looked at.
AuthorizesAnything(user_input) == TRUE

\* Whether the answer typed at a prompt makes the script update.
Authorizes(user_input) == user_input = "y"

\* The operator answers "Do you want to update the cost and price? (y/n)".
PriceAnswer ==
    /\ pc = "price_prompt"
    /\ \E user_input \in {"y", "n"} :
         IF Authorizes(user_input)
         THEN \E wire \in Transport, fault \in {"none", "write", "read"} :
                LET r == update_product_price(
                             pair.product.id, pair.excel.precio_neto,
                             calculated_price(pair.excel.precio_neto), wire, fault)
                    p == [pair EXCEPT !.price_answer = user_input, !.price_put = r.put]
                IN  /\ erp' = r.erp
                    /\ flow' = flow
                    /\ IF wire = "raised"
                       THEN pair' = p /\ pc' = "crashed" /\ idx' = idx
                       ELSE AfterPrice(p)
         ELSE /\ erp' = erp
              /\ flow' = flow
              /\ AfterPrice([pair EXCEPT !.price_answer = user_input])
    /\ UNCHANGED <<odoo_products, calls, last>>

\* The operator answers "Do you want to update the stock? (y/n)".
StockAnswer ==
    /\ pc = "stock_prompt"
    /\ \E user_input \in {"y", "n"} :
         IF Authorizes(user_input)
         THEN \E wire \in Transport, fault \in {"none", "create", "action_validate"} :
                LET r == update_product_stock(pair.product.id, pair.excel.stock, wire, fault)
                IN  /\ erp' = r.erp
                    /\ pair' = [pair EXCEPT !.stock_answer = user_input, !.stock_put = r.put]
                    /\ IF wire = "raised"
                       THEN pc' = "crashed" /\ idx' = idx
                       ELSE pc' = "loop" /\ idx' = idx + 1
         ELSE /\ erp' = erp
              /\ pair' = [pair EXCEPT !.stock_answer = user_input]
              /\ pc' = "loop"
              /\ idx' = idx + 1
    /\ UNCHANGED <<flow, odoo_products, calls, last>>

\* What main reports when it ends: it returns no value ('return' at line
\* 165, falling off the loop at line 179) and prints no totals.
Summary == None

\* The for loop has run out of records: main returns.
EndOfBatch ==
    /\ pc = "loop"
    /\ idx > Len(odoo_products)
    /\ pc' = "done"
    /\ UNCHANGED <<erp, flow, odoo_products, idx, pair, calls, last>>

Next ==
    \/ Main
    \/ NextProduct
    \/ PriceAnswer
    \/ StockAnswer
    \/ EndOfBatch

Spec == Init /\ [][Next]_vars

(***************************************************************************)
(* The facade and the service on their own: any caller may use             *)
(* OdooProductAPI directly or send the facade a PUT.  Each call is served  *)
(* at a later time than the one before (time = its number).                *)
(***************************************************************************)
StockFaults == {"none", "create", "action_start", "search_line", "write_line",
                "search_location", "create_line", "action_validate", "read"}

PriceFaults == {"none", "write", "read"}

AnyIds == {1, MissingId}

Quantities == {3 * Micro, 10 * Micro}

ListPrices == {None, 120 * Micro}

StandardPrices == {None, 5607 * Cent}

\* The bodies a PUT .../price may carry: not JSON at all, or a JSON object
\* where each of the two keys is absent, null or a number.
PriceBodies ==
    {[is_json |-> FALSE, keys |-> {}, list_price |-> None, standard_price |-> None]}
    \cup {[is_json |-> TRUE, keys |-> k, list_price |-> l, standard_price |-> c] :
            k \in SUBSET {"list_price", "standard_price"},
            l \in ListPrices, c \in StandardPrices}

\* The ERP before the first call: every product on hand at location 1
\* and/or 2 or nowhere, and company 1 with two, one or no internal location.
InitApi ==
    /\ \E q1 \in {0, 10 * Micro}, q2 \in {0, 4 * Micro}, internal \in {{}, {1}, {1, 2}} :
         erp = [ErpOf([p \in ProductIds |->
                         [default_code |-> "A", list_price |-> 99 * Micro,
                          standard_price |-> 4673 * Cent, qty |-> q1]], internal)
                EXCEPT !.quant = [k \in DOMAIN @ |->
                                    IF k[2] \notin internal THEN 0
                                    ELSE IF k[2] = 1 THEN q1 ELSE q2]]
    /\ flow = "prices"
    /\ pc = "idle"
    /\ odoo_products = <<>>
    /\ idx = 0
    /\ pair = FreshPair(NoProduct)
    /\ calls = 0
    /\ last = [call |-> NoCall, before |-> erp]

Served(call, result_erp) ==
    /\ calls < MaxCalls
    /\ calls' = calls + 1
    /\ erp' = result_erp
    /\ last' = [call |-> [call EXCEPT !.time = calls + 1], before |-> erp]
    /\ UNCHANGED <<flow, pc, odoo_products, idx, pair>>

\* A direct call of OdooProductAPI.update_product_stock.
CallUpdateStock ==
    \E product_id \in AnyIds, new_quantity \in Quantities,
       location_id \in {None} \cup LocationIds, fault \in StockFaults :
      LET r == OdooProductAPI_update_product_stock(
                   erp, product_id, new_quantity, location_id, fault)
      IN  Served([NoCall EXCEPT !.op = "update_product_stock",
                    !.product_id = product_id, !.quantity = new_quantity,
                    !.location_id = location_id,
                    !.outcome = r.outcome, !.touched = r.touched], r.erp)

\* A direct call of OdooProductAPI.update_product_price.
CallUpdatePrice ==
    \E product_id \in AnyIds, list_price \in ListPrices,
       standard_price \in StandardPrices, fault \in PriceFaults :
      LET r == OdooProductAPI_update_product_price(
                   erp, product_id, list_price, standard_price, fault)
      IN  Served([NoCall EXCEPT !.op = "update_product_price",
                    !.product_id = product_id, !.list_price = list_price,
                    !.standard_price = standard_price,
                    !.outcome = r.outcome, !.written = r.written], r.erp)

\* PUT /api/odoo/products/<id>/price with any body.
RequestPutPrice ==
    \E product_id \in AnyIds, data \in PriceBodies, fault \in PriceFaults :
      LET r == PutPrice(erp, product_id, data, fault)
      IN  Served([NoCall EXCEPT !.op = "PUT price", !.product_id = product_id,
                    !.list_price = IF "list_price" \in data.keys
                                   THEN data.list_price ELSE None,
                    !.standard_price = IF "standard_price" \in data.keys
                                       THEN data.standard_price ELSE None,
                    !.status = r.status], r.erp)

\* PUT /api/odoo/products/<id>/stock with a quantity.
RequestPutStock ==
    \E product_id \in AnyIds, quantity \in Quantities, fault \in StockFaults :
      LET r == PutStock(erp, product_id, StockBody(quantity), fault)
      IN  Served([NoCall EXCEPT !.op = "PUT stock", !.product_id = product_id,
                    !.quantity = quantity, !.status = r.status], r.erp)

\* The stock side of the facade and the service.
NextStock ==
    \/ CallUpdateStock
    \/ RequestPutStock

SpecStock == InitApi /\ [][NextStock]_vars

\* The price side of the facade and the service.
NextPrice ==
    \/ CallUpdatePrice
    \/ RequestPutPrice

SpecPrice == InitApi /\ [][NextPrice]_vars

(***************************************************************************)
(* Properties of the reconciliation runs (Spec).                           *)
(***************************************************************************)
\* The record being processed was matched with a spreadsheet row.
Matched == pair.lookup = "200"

\* The ERP still holds, for fetched record i, what the fetch returned.
Untouched(i) == ProductRecord(erp, odoo_products[i].id) = odoo_products[i]

\* C1: a price or stock PUT is issued for the current record only if that
\* family was decided 'mismatch' and the operator answered "y" at its
\* prompt; without such a PUT the ERP holds what was fetched, both for the
\* current record and for every record the loop has not reached yet.
C1_WriteOnlyWhenAuthorized ==
    /\ pair.price_put.sent => pair.price = "mismatch" /\ pair.price_answer = "y"
    /\ pair.stock_put.sent => pair.stock = "mismatch" /\ pair.stock_answer = "y"
    /\ pair.product.id # None /\ ProductRecord(erp, pair.product.id) # pair.product
         => pair.price_put.sent \/ pair.stock_put.sent
    /\ \A i \in 1..Len(odoo_products) :
         (i > idx \/ (i = idx /\ pair.product.id # odoo_products[i].id)) => Untouched(i)

\* C1 witness: an authorized price update went through to the ERP.
C1_Witness ==
    /\ pair.price = "mismatch"
    /\ pair.price_answer = "y"
    /\ pair.price_put.sent
    /\ pair.price_put.status = "200"
    /\ ProductRecord(erp, pair.product.id) # pair.product

\* The exact decimal difference the price comparison is about.
PriceDiff == Abs(pair.product.standard_price - calculated_price(pair.excel.precio_neto))

PriceCompared == Matched /\ pair.price \in {"equal", "mismatch"}

\* C2 as claimed: in both flows the decision is PriceEqual iff
\* abs(standard_price - round(net_price/2.14, 2)) < 0.01.
C2_Original ==
    PriceCompared => (pair.price = "equal" <=> PriceDiff < Cent)

\* C2 as amended: compare_prices_and_stock decides PriceEqual below a
\* difference of 0.01 and mismatch above it; compare_prices does so below
\* and above 1e-6; at a difference of exactly 0.01 the doubles decide:
\* 50.01 against 50.00 is PriceEqual, 46.74 against 46.73 is a mismatch.
C2_PriceDecision ==
    PriceCompared =>
       /\ flow = "both" /\ PriceDiff < Cent => pair.price = "equal"
       /\ flow = "both" /\ PriceDiff > Cent => pair.price = "mismatch"
       /\ flow = "prices" /\ PriceDiff < 1 => pair.price = "equal"
       /\ flow = "prices" /\ PriceDiff > 1 => pair.price = "mismatch"
       /\ (/\ flow = "both"
           /\ pair.product.standard_price = 5001 * Cent
           /\ pair.excel.precio_neto = 107 * Micro) => pair.price = "equal"
       /\ (/\ pair.product.standard_price = 4674 * Cent
           /\ pair.excel.precio_neto = 100 * Micro) => pair.price = "mismatch"

\* C2 witness: a difference of exactly one cent that was decided PriceEqual.
C2_Witness ==
    /\ PriceCompared
    /\ flow = "both"
    /\ PriceDiff = Cent
    /\ pair.price = "equal"

\* The exact decimal difference the stock comparison is about.
StockDiff == Abs(pair.product.qty_available - pair.excel.stock)

StockCompared == Matched /\ pair.stock \in {"equal", "mismatch"}

\* C3 as claimed: StockEqual iff abs(available_quantity - available_stock)
\* < 1e-6, so a difference of exactly 1e-6 is a mismatch.
C3_Original ==
    StockCompared => (pair.stock = "equal" <=> StockDiff < 1)

\* C3 as amended: a mismatch is a difference the doubles put above 1e-6
\* ('>'): below 1e-6 the decision is StockEqual, above it a mismatch, and
\* at exactly 1e-6 it is StockEqual for 0 against 0.000001 and for 10
\* against 10.000001, a mismatch (which reaches the prompt) for 5 against
\* 5.000001.
C3_StockDecision ==
    StockCompared =>
       /\ StockDiff < 1 => pair.stock = "equal"
       /\ StockDiff > 1 => pair.stock = "mismatch"
       /\ (pair.product.qty_available = 0 /\ pair.excel.stock = 1)
            => pair.stock = "equal"
       /\ (pair.product.qty_available = 10 * Micro /\ pair.excel.stock = 10 * Micro + 1)
            => pair.stock = "equal"
       /\ (pair.product.qty_available = 5 * Micro /\ pair.excel.stock = 5 * Micro + 1)
            => pair.stock = "mismatch"
       /\ pair.stock = "mismatch" /\ pair.stock_answer = "" => pc = "stock_prompt"

\* C3 witness: a difference of exactly 1e-6 that was decided StockEqual.
C3_Witness ==
    /\ StockCompared
    /\ StockDiff = 1
    /\ pair.stock = "equal"

\* C4 as claimed: when the net price is absent only the price comparison
\* is skipped; the stock comparison of the same record is still made.
C4_StockComparedWithoutPrice ==
    (Matched /\ flow = "both" /\ pair.price = "missing")
        => pair.stock = stock_decision(pair.product, pair.excel)

\* C5: an authorized price update asks, for the record's own product id,
\* for standard_price = round(net_price / 2.14, 2) and list_price =
\* net_price (46.73 for 100, 50.00 for 107), whatever the ERP holds; once
\* the facade answers 200 these are the ERP's values.
C5_PriceUpdateValues ==
    pair.price_put.sent =>
       /\ pair.price_put.product_id = pair.product.id
       /\ pair.price_put.list_price = pair.excel.precio_neto
       /\ pair.excel.precio_neto = 100 * Micro => pair.price_put.standard_price = 4673 * Cent
       /\ pair.excel.precio_neto = 107 * Micro => pair.price_put.standard_price = 5000 * Cent
       /\ pair.price_put.status = "200" =>
            /\ erp.product[pair.product.id].standard_price = pair.price_put.standard_price
            /\ erp.product[pair.product.id].list_price = pair.excel.precio_neto

\* C5 witness: the update of the spec's example 2 (net price 100) applied.
C5_Witness ==
    /\ pair.price_put.sent
    /\ pair.price_put.status = "200"
    /\ pair.excel.precio_neto = 100 * Micro
    /\ erp.product[pair.product.id].standard_price = 4673 * Cent
    /\ pair.product.standard_price = 5001 * Cent

\* C6 as claimed: an authorized stock update that meets no transport or
\* upstream failure is applied: the facade answers 200 and the ERP holds
\* the spreadsheet's quantity for the product.
C6_AuthorizedStockApplied ==
    (pair.stock_put.sent /\ pair.stock_put.status \notin {"raised", "500"}) =>
       /\ pair.stock_put.status = "200"
       /\ qty_available(erp, pair.product.id) = pair.excel.stock

\* C10 as claimed: once the loop over the batch has begun, no failure of
\* a lookup or of a write ends the run before the last record.
C10_NeverAborts == ~(pc = "crashed" /\ idx >= 1)

(***************************************************************************)
(* Properties of the service and the facade (SpecStock, SpecPrice).        *)
(***************************************************************************)
StockCallOk ==
    last.call.op = "update_product_stock" /\ last.call.outcome = "ok"

\* The internal locations where product p is on hand in ERP state e.
OnHand(e, p) == {l \in e.internal : e.quant[<<p, l>>] > 0}

\* The lines of the adjustment the last call created.
NewLines == {i \in DOMAIN erp.line : erp.line[i].inventory_id = Len(erp.inventory)}

\* Where the last call puts a line when it finds none to overwrite.
DefaultTarget ==
    IF last.call.location_id # None THEN last.call.location_id
    ELSE CHOOSE m \in last.before.internal : \A n \in last.before.internal : m <= n

\* The lines the last call found to overwrite, by location.
Matching ==
    IF last.call.location_id = None THEN OnHand(last.before, last.call.product_id)
    ELSE OnHand(last.before, last.call.product_id) \cap {last.call.location_id}

\* The locations whose quantity the last call sets.
Targets == IF Matching # {} THEN Matching ELSE {DefaultTarget}

PriceCall == last.call.op \in {"update_product_price", "PUT price"}

PriceCallOk == last.call.outcome = "ok" \/ last.call.status = "200"

\* C9: update_product_price writes exactly the supplied fields among
\* list_price and standard_price of the one product and nothing else in
\* the ERP; a field that was not supplied keeps its value; with neither
\* supplied the call fails (ValueError, 400 from the facade) and the ERP
\* is what it was.
C9_PriceFrame ==
    PriceCall =>
       LET c == last.call
           b == last.before
           p == c.product_id
       IN  /\ erp.quant = b.quant /\ erp.line = b.line /\ erp.inventory = b.inventory
           /\ \A q \in DOMAIN erp.product : q # p => erp.product[q] = b.product[q]
           /\ p \in DOMAIN erp.product =>
                /\ erp.product[p].default_code = b.product[p].default_code
                /\ c.list_price = None => erp.product[p].list_price = b.product[p].list_price
                /\ c.standard_price = None
                     => erp.product[p].standard_price = b.product[p].standard_price
                /\ erp.product[p].list_price \in {b.product[p].list_price, c.list_price}
                /\ erp.product[p].standard_price
                     \in {b.product[p].standard_price, c.standard_price}
                /\ PriceCallOk =>
                     /\ c.list_price # None => erp.product[p].list_price = c.list_price
                     /\ c.standard_price # None
                          => erp.product[p].standard_price = c.standard_price
           /\ (c.list_price = None /\ c.standard_price = None) =>
                /\ erp = b
                /\ ~PriceCallOk
                /\ c.op = "update_product_price"
                     => c.outcome = "ValueError" /\ c.written = {}
                /\ c.op = "PUT price" => c.status = "400"
           /\ (c.op = "update_product_price" /\ c.outcome = "ok") =>
                c.written = {f \in {<<"list_price", c.list_price>>,
                                    <<"standard_price", c.standard_price>>} : f[2] # None}

\* C9 witness: only list_price supplied: it is written, standard_price stays.
C9_Witness ==
    /\ last.call.op = "update_product_price"
    /\ last.call.outcome = "ok"
    /\ last.call.list_price # None
    /\ last.call.standard_price = None
    /\ erp.product[last.call.product_id].list_price = last.call.list_price
    /\ erp.product[last.call.product_id].list_price
          # last.before.product[last.call.product_id].list_price
    /\ erp.product[last.call.product_id].standard_price
          = last.before.product[last.call.product_id].standard_price

(***************************************************************************)
(* Further properties of the reconciliation runs (Spec).                   *)
(***************************************************************************)
\* The record in hand went through no comparison, prompt or update.
NothingDone ==
    /\ pair.price = "none" /\ pair.stock = "none"
    /\ pair.price_answer = "" /\ pair.stock_answer = ""
    /\ ~pair.price_put.sent /\ ~pair.stock_put.sent
    /\ pc \notin {"price_prompt", "stock_prompt"}
    /\ erp.product[pair.product.id] = last.before.product[pair.product.id]
    /\ \A l \in LocationIds :
         erp.quant[<<pair.product.id, l>>] = last.before.quant[<<pair.product.id, l>>]

\* C11: an ERP record without a code forms no pair: no source lookup is
\* made for it, no decision is produced, no prompt is shown and nothing is
\* written for its product; the same holds, but for the lookup, of a
\* record whose source lookup is not answered with 200.
C11_UnmatchedUntouched ==
    /\ (pair.product.id # None /\ pair.product.default_code = "")
          => pair.lookup = "no_code" /\ NothingDone
    /\ pair.lookup \in {"no_code", "404", "500"} => NothingDone
    /\ pair.lookup \in {"404", "500"} => pair.product.default_code # ""

\* C11 witness: the second record of a batch has no code and was passed
\* over, the ERP differing from what any source row would ask for.
C11_Witness ==
    /\ pair.lookup = "no_code"
    /\ pair.product.id = 2
    /\ pair.product.standard_price = 50 * Micro
    /\ idx = 3
    /\ pc = "loop"

\* C12 as claimed: when a run ends it reports a Summary that accounts for
\* every ERP record of the batch, the records without a code being counted
\* in unmatched_missing_code.
C12_SummaryReported ==
    pc = "done" =>
       /\ Summary # None
       /\ Summary.unmatched_missing_code =
             Cardinality({i \in DOMAIN odoo_products : ~HasCode(odoo_products[i])})

\* C14: when the initial fetch of the ERP records fails (the facade does
\* not answer, or not with 200) or returns no records, the run is over at
\* once: no record is looked up, nothing is compared, no prompt is shown
\* and nothing is written to the ERP.
C14_NoRecordsNoRun ==
    (pc # "idle" /\ odoo_products = <<>>) =>
       /\ pc \in {"done", "crashed"}
       /\ idx = 0
       /\ pair = FreshPair(NoProduct)
       /\ erp = last.before

\* C14 witness: the ERP has no product, the fetch is answered with an
\* empty list and the run has ended.
C14_Witness ==
    /\ pc = "done"
    /\ odoo_products = <<>>
    /\ DOMAIN erp.product = {}

\* The price update of the record in hand was authorized and applied.
PriceApplied ==
    /\ pair.price_answer = "y"
    /\ pair.price_put.sent
    /\ pair.price_put.status = "200"

\* C15: once an authorized price update of a pair has been applied, the
\* ERP's standard_price is round(net_price / 2.14, 2) and comparing the
\* product as the ERP now reports it with the same source row decides
\* 'equal', in either script: no prompt and no price write would follow.
C15_PriceConverges ==
    PriceApplied =>
       /\ erp.product[pair.product.id].standard_price
             = calculated_price(pair.excel.precio_neto)
       /\ \A f \in Flows :
             price_decision(f, ProductRecord(erp, pair.product.id), pair.excel) = "equal"

\* C15 witness: a mismatch (46.74 in the ERP, 46.73 computed) was applied
\* and the ERP now holds the computed price.
C15_Witness ==
    /\ PriceApplied
    /\ pair.price = "mismatch"
    /\ pair.product.standard_price = 4674 * Cent
    /\ erp.product[pair.product.id].standard_price = 4673 * Cent

\* The record in hand has a source row, and its ERP standard_price is a
\* whole number of cents.
WholeCentPair ==
    /\ pair.lookup = "200"
    /\ pair.product.standard_price # None
    /\ pair.product.standard_price % Cent = 0

\* C16 as claimed: for every pair whose ERP standard_price is a whole
\* number of cents, compare_prices and compare_prices_and_stock reach the
\* same price decision.
C16_Original ==
    WholeCentPair =>
       price_decision("prices", pair.product, pair.excel)
          = price_decision("both", pair.product, pair.excel)

\* C16 as amended: for such a pair the two scripts reach the same price
\* decision when the net price is absent (both 'missing'), when
\* standard_price equals round(net_price / 2.14, 2) (both 'equal') and when
\* the two differ by two cents or more (both 'mismatch'); when they differ
\* by exactly one cent compare_prices decides 'mismatch' and
\* compare_prices_and_stock decides by the doubles, 'equal' or 'mismatch'.
\* The script that ran decided as its own rule says, and the update it
\* sends once authorized carries the same values in either script.
C16_FlowsAgree ==
    WholeCentPair =>
       LET calc  == calculated_price(pair.excel.precio_neto)
           d     == Abs(pair.product.standard_price - calc)
           alone == price_decision("prices", pair.product, pair.excel)
           both  == price_decision("both", pair.product, pair.excel)
       IN  /\ pair.price = price_decision(flow, pair.product, pair.excel)
           /\ pair.excel.precio_neto = None => alone = "missing" /\ both = "missing"
           /\ pair.excel.precio_neto # None =>
                /\ d = 0 => alone = "equal" /\ both = "equal"
                /\ d = Cent => alone = "mismatch" /\ both \in {"equal", "mismatch"}
                /\ d >= 2 * Cent => alone = "mismatch" /\ both = "mismatch"
           /\ pair.price_put.sent =>
                /\ pair.price_put.list_price = pair.excel.precio_neto
                /\ pair.price_put.standard_price = calc

\* C16 witness: 50.01 in the ERP against a computed 50.00, one cent apart:
\* compare_prices_and_stock ran, decided 'equal' and went on, where
\* compare_prices decides 'mismatch'.
C16_Witness ==
    /\ WholeCentPair
    /\ flow = "both"
    /\ pair.product.standard_price = 5001 * Cent
    /\ pair.excel.precio_neto = 107 * Micro
    /\ pair.price = "equal"
    /\ price_decision("prices", pair.product, pair.excel) = "mismatch"

(***************************************************************************)
(* Further properties of the service (SpecStock).                          *)
(***************************************************************************)
\* C13 as claimed: in update_product_stock without a location_id, the
\* default internal location is resolved first: when there is none the
\* call fails before any create or write, so the ERP is left as it was.
C13_FailedCallLeavesNothing ==
    (/\ last.call.op = "update_product_stock"
     /\ last.call.location_id = None
     /\ last.call.outcome = "ValueError")
       => erp = last.before

=============================================================================
